---- MODULE Spec2Model ----
(***************************************************************************)
(* A model of the leveled console logger (package log).                    *)
(*                                                                         *)
(* Text is a sequence of runes (Unicode code points, as naturals).  A      *)
(* value passed as interface{} is a record: a string, an int or nil.       *)
(* A slice is a window (arr, len, cap) on a backing array of the heap, so  *)
(* that append shares or reallocates as Go's append does.                  *)
(***************************************************************************)
EXTENDS Integers, Sequences, FiniteSets, TLC

VARIABLES loggers, mu, heap, sink, pc, cur, acc, nops, derived, esc

vars == <<loggers, mu, heap, sink, pc, cur, acc, nops, derived, esc>>

(***************************************************************************)
(* Bounds of the model.                                                    *)
(***************************************************************************)
MaxLoggers == 3
MaxOps == 2
MaxSeqOps == 3
MaxTextLen == 3
MaxSpare == 2
MaxEscLen == 2
MaxDiscardOps == 3
MaxFairOps == 3
MaxSharedOps == 2

Threads == {"t1", "t2"}

(***************************************************************************)
(* Runes.                                                                  *)
(***************************************************************************)
NL == 10
DQUOTE == 34
SPACE == 32
DASH == 45
TILDE == 126
BAR == 9474

\* strings.IndexByte: the first position of c in s (1-based), 0 when absent.
IndexByte(s, c) ==
  IF \E i \in 1..Len(s) : s[i] = c
    THEN CHOOSE i \in 1..Len(s) : s[i] = c /\ \A j \in 1..(i - 1) : s[j] # c
    ELSE 0

\* strings.LastIndexByte: the last position of c in s (1-based), 0 when absent.
LastIndexByte(s, c) ==
  IF \E i \in 1..Len(s) : s[i] = c
    THEN CHOOSE i \in 1..Len(s) : s[i] = c /\ \A j \in (i + 1)..Len(s) : s[j] # c
    ELSE 0

\* strings.Contains(s, "\n") and the like, for a one-rune pattern.
ContainsRune(s, c) == \E i \in 1..Len(s) : s[i] = c

\* unicode.IsPrint on the runes the model uses: ASCII 0x20..0x7E, the
\* printable part of Latin-1 and the box-drawing bar.
IsPrint(r) ==
  \/ (32 <= r /\ r <= 126)
  \/ (161 <= r /\ r <= 172)
  \/ (174 <= r /\ r <= 255)
  \/ r = BAR

lowerhex == <<48, 49, 50, 51, 52, 53, 54, 55, 56, 57, 97, 98, 99, 100, 101, 102>>

RECURSIVE Pow16(_)
Pow16(n) == IF n = 0 THEN 1 ELSE 16 * Pow16(n - 1)

\* lowerhex[r>>s & 0xF] for s = 4*(n-1), ..., 4, 0.
RECURSIVE HexDigits(_, _)
HexDigits(r, n) ==
  IF n = 0 THEN <<>>
  ELSE <<lowerhex[((r \div Pow16(n - 1)) % 16) + 1]>> \o HexDigits(r, n - 1)

needsEscaping(str) == \E i \in 1..Len(str) : ~IsPrint(str[i]) \/ str[i] = DQUOTE

\* A loop body that escapes a double quote whatever escapeQuotes is.
EscapeRune_QuoteAlways(r, escapeQuotes) ==
  IF r = DQUOTE THEN <<92, DQUOTE>>
  ELSE IF IsPrint(r) THEN <<r>>
  ELSE IF r = 7 THEN <<92, 97>>
  ELSE IF r = 8 THEN <<92, 98>>
  ELSE IF r = 12 THEN <<92, 102>>
  ELSE IF r = NL THEN <<92, 110>>
  ELSE IF r = 13 THEN <<92, 114>>
  ELSE IF r = 9 THEN <<92, 116>>
  ELSE IF r = 11 THEN <<92, 118>>
  ELSE IF r < SPACE THEN <<92, 120>> \o HexDigits(r, 2)
  ELSE IF r < 65536 THEN <<92, 117>> \o HexDigits(r, 4)
  ELSE <<92, 85>> \o HexDigits(r, 8)

\* The bytes written for one rune by the loop of writeEscapedForOutput.
EscapeRune(r, escapeQuotes) ==
  IF escapeQuotes /\ r = DQUOTE THEN <<92, DQUOTE>>
  ELSE IF IsPrint(r) THEN <<r>>
  ELSE IF r = 7 THEN <<92, 97>>
  ELSE IF r = 8 THEN <<92, 98>>
  ELSE IF r = 12 THEN <<92, 102>>
  ELSE IF r = NL THEN <<92, 110>>
  ELSE IF r = 13 THEN <<92, 114>>
  ELSE IF r = 9 THEN <<92, 116>>
  ELSE IF r = 11 THEN <<92, 118>>
  ELSE IF r < SPACE THEN <<92, 120>> \o HexDigits(r, 2)
  ELSE IF r < 65536 THEN <<92, 117>> \o HexDigits(r, 4)
  ELSE <<92, 85>> \o HexDigits(r, 8)

RECURSIVE EscapeAll(_, _)
EscapeAll(str, escapeQuotes) ==
  IF str = <<>> THEN <<>>
  ELSE EscapeRune(Head(str), escapeQuotes) \o EscapeAll(Tail(str), escapeQuotes)

\* The bytes writeEscapedForOutput writes to w.
writeEscapedForOutput(str, escapeQuotes) ==
  IF ~needsEscaping(str) THEN str ELSE EscapeAll(str, escapeQuotes)

\* A writeIndent that writes nothing for an empty line inside the value.
RECURSIVE writeIndent_SkipEmpty(_, _)
writeIndent_SkipEmpty(str, indent) ==
  LET nl == IndexByte(str, NL) IN
  IF nl = 0
    THEN IF str # <<>>
           THEN indent \o writeEscapedForOutput(str, FALSE) \o <<NL>>
           ELSE <<>>
    ELSE (IF nl = 1 THEN <<>>
          ELSE indent \o writeEscapedForOutput(SubSeq(str, 1, nl - 1), FALSE) \o <<NL>>)
         \o writeIndent_SkipEmpty(SubSeq(str, nl + 1, Len(str)), indent)

\* The bytes writeIndent writes to w.
RECURSIVE writeIndent(_, _)
writeIndent(str, indent) ==
  LET nl == IndexByte(str, NL) IN
  IF nl = 0
    THEN IF str # <<>>
           THEN indent \o writeEscapedForOutput(str, FALSE) \o <<NL>>
           ELSE <<>>
    ELSE indent \o writeEscapedForOutput(SubSeq(str, 1, nl - 1), FALSE) \o <<NL>>
         \o writeIndent(SubSeq(str, nl + 1, Len(str)), indent)

\* A range that starts at the space instead of the '-'.
isNormal_FromSpace(r) == SPACE <= r /\ r <= TILDE

isNormal(r) == DASH <= r /\ r <= TILDE

needsQuoting(str) == \E i \in 1..Len(str) : ~isNormal(str[i])

(***************************************************************************)
(* Values (interface{}) and their default string form.                     *)
(***************************************************************************)
StrV(s) == [k |-> "str", s |-> s, n |-> 0]
IntV(n) == [k |-> "int", s |-> <<>>, n |-> n]
NilV == [k |-> "nil", s |-> <<>>, n |-> 0]

RECURSIVE Digits(_)
Digits(n) == IF n < 10 THEN <<48 + n>> ELSE Digits(n \div 10) \o <<48 + (n % 10)>>

\* fmt.Sprint of one operand: a string as it is, an int in decimal, nil as <nil>.
Sprint(v) ==
  IF v.k = "str" THEN v.s
  ELSE IF v.k = "int" THEN Digits(v.n)
  ELSE <<60, 110, 105, 108, 62>>

MISSING_VALUE == StrV(<<77, 73, 83, 83, 73, 78, 71, 95, 86, 65, 76, 85, 69>>)
MISSING_KEY == <<77, 73, 83, 83, 73, 78, 71, 95, 75, 69, 89>>

(***************************************************************************)
(* Levels, styles, time and caller: the collaborators of the formatter.    *)
(***************************************************************************)
DebugLevel == 0
InfoLevel == 1
WarnLevel == 2
ErrorLevel == 3
Levels == {DebugLevel, InfoLevel, WarnLevel, ErrorLevel}

\* Level.String(): the lower-case name of the level.
LevelString(level) ==
  IF level = DebugLevel THEN <<100, 101, 98, 117, 103>>
  ELSE IF level = InfoLevel THEN <<105, 110, 102, 111>>
  ELSE IF level = WarnLevel THEN <<119, 97, 114, 110>>
  ELSE <<101, 114, 114, 111, 114>>

\* strings.ToUpper on ASCII text.
ToUpper(s) == [i \in 1..Len(s) |-> IF 97 <= s[i] /\ s[i] <= 122 THEN s[i] - 32 ELSE s[i]]

\* A style's Render on a terminal with colours: the text between an SGR
\* sequence (ESC [ 2 m) and the reset sequence (ESC [ 0 m).
Render(s) == <<27, 91, 50, 109>> \o s \o <<27, 91, 48, 109>>

\* Values of type TimeFunction and the instant each returns when called.
CallTimeFunc(f) == IF f = "Now" THEN 7 ELSE 0

\* Time formats (layouts) and t.Format(layout): DefaultTimeFormat, time.Kitchen
\* and the empty layout.
DefaultTimeFormat == "2006/01/02 15:04:05"
Kitchen == "3:04PM"
FormatTime(t, layout) ==
  IF layout = DefaultTimeFormat THEN <<50, 48, 48, 48 + t>>
  ELSE IF layout = Kitchen THEN <<48 + t, 80, 77>>
  ELSE <<>>

\* runtime.Caller(skip) seen from log: with skip = 2 the frame is the caller
\* of the severity method, which always exists.
CallSiteFile == <<47, 104, 47, 103, 47, 109, 46, 103, 111>>
CallSiteLine == 15
RuntimeCaller(skip) == [file |-> CallSiteFile, line |-> CallSiteLine, ok |-> skip <= 2]

trimCallerPath(path) ==
  LET idx == LastIndexByte(path, 47) IN
  IF idx = 0 THEN path
  ELSE LET idx2 == LastIndexByte(SubSeq(path, 1, idx - 1), 47) IN
       IF idx2 = 0 THEN path ELSE SubSeq(path, idx2 + 1, Len(path))

(***************************************************************************)
(* The record formatter: what logger.log appends to the scratch buffer.    *)
(***************************************************************************)
\* Lines 198-241: timestamp, level, caller, prefix and message.
Header(l, level, t, msg) ==
  LET ts == FormatTime(t, l.timeFormat)
      lvl == ToUpper(LevelString(level))
      fr == RuntimeCaller(l.callerOffset)
      caller == trimCallerPath(fr.file) \o <<58>> \o Digits(fr.line) \o <<58>>
      prefix == l.prefix \o <<58>>
      m == Sprint(msg)
      style(s) == IF l.noColor THEN s ELSE Render(s)
  IN (IF l.timestamp THEN style(ts) \o <<SPACE>> ELSE <<>>)
     \o style(lvl) \o <<SPACE>>
     \o (IF l.caller /\ fr.ok THEN style(caller) \o <<SPACE>> ELSE <<>>)
     \o (IF l.prefix # <<>> THEN style(prefix) \o <<SPACE>> ELSE <<>>)
     \o (IF msg # NilV THEN style(m) ELSE <<>>)

\* SeparetorStyle.Render, bound to sep at line 251 whatever noColor is.
sep(s) == Render(s)

\* A pass that puts the empty value through the quoting test like any other.
FormatPair_QuoteRaw(k, v, noColor) ==
  LET key0 == Sprint(k)
      val0 == Sprint(v)
      raw == (val0 = <<>>)
      val1 == IF raw THEN <<DQUOTE, DQUOTE>> ELSE val0
      key1 == IF key0 = <<>> THEN MISSING_KEY ELSE key0
      key == IF noColor THEN key1 ELSE Render(key1)
      val == IF noColor THEN val1 ELSE Render(val1)
  IN IF ContainsRune(val, NL)
       THEN <<NL, SPACE, SPACE>> \o key \o sep(<<61>>) \o <<NL>>
            \o writeIndent(val, sep(<<SPACE, SPACE, BAR, SPACE>>)) \o <<SPACE>>
     ELSE IF needsQuoting(val)
       THEN <<SPACE>> \o key \o sep(<<61>>) \o <<DQUOTE>>
            \o writeEscapedForOutput(val, TRUE) \o <<DQUOTE>>
     ELSE <<SPACE>> \o key \o sep(<<61>>) \o val

\* Lines 249-289: one pass of the loop over the key/value pairs.
FormatPair(k, v, noColor) ==
  LET key0 == Sprint(k)
      val0 == Sprint(v)
      raw == (val0 = <<>>)
      val1 == IF raw THEN <<DQUOTE, DQUOTE>> ELSE val0
      key1 == IF key0 = <<>> THEN MISSING_KEY ELSE key0
      key == IF noColor THEN key1 ELSE Render(key1)
      val == IF noColor THEN val1 ELSE Render(val1)
  IN IF ContainsRune(val, NL)
       THEN <<NL, SPACE, SPACE>> \o key \o sep(<<61>>) \o <<NL>>
            \o writeIndent(val, sep(<<SPACE, SPACE, BAR, SPACE>>)) \o <<SPACE>>
     ELSE IF ~raw /\ needsQuoting(val)
       THEN <<SPACE>> \o key \o sep(<<61>>) \o <<DQUOTE>>
            \o writeEscapedForOutput(val, TRUE) \o <<DQUOTE>>
     ELSE <<SPACE>> \o key \o sep(<<61>>) \o val

\* Lines 248-292: the loop (i = 0, 2, 4, ...) and the final newline.
RECURSIVE FormatPairsFrom(_, _, _)
FormatPairsFrom(keyvals, i, noColor) ==
  IF i >= Len(keyvals) THEN <<>>
  ELSE FormatPair(keyvals[i + 1], keyvals[i + 2], noColor)
       \o FormatPairsFrom(keyvals, i + 2, noColor)

FormatPairs(keyvals, noColor) == FormatPairsFrom(keyvals, 0, noColor) \o <<NL>>

(***************************************************************************)
(* Slices of []interface{} and append.                                     *)
(***************************************************************************)
NilSlice == [arr |-> 0, len |-> 0, cap |-> 0]

\* The capacity append gives a reallocated array (runtime growslice, for the
\* small slices of the model): the needed length when it exceeds twice the
\* old capacity, else twice the old capacity.
GrowCap(oldCap, newLen) == IF newLen > 2 * oldCap THEN newLen ELSE 2 * oldCap

\* The elements a slice shows.
Elems(h, s) == IF s.arr = 0 THEN <<>> ELSE SubSeq(h[s.arr], 1, s.len)

\* append(s, vs...): in place when the capacity allows, else into a new array.
\* Gives the slice and the heap after the call.
AppendSlice(h, s, vs) ==
  LET n == s.len + Len(vs) IN
  IF Len(vs) = 0 THEN [s |-> s, h |-> h]
  ELSE IF n <= s.cap
    THEN [s |-> [s EXCEPT !.len = n],
          h |-> [h EXCEPT ![s.arr] =
                   [i \in 1..s.cap |->
                      IF s.len < i /\ i <= n THEN vs[i - s.len] ELSE @[i]]]]
  ELSE LET c == GrowCap(s.cap, n)
           a == [i \in 1..c |->
                   IF i <= s.len THEN h[s.arr][i]
                   ELSE IF i <= n THEN vs[i - s.len] ELSE NilV]
       IN [s |-> [arr |-> Len(h) + 1, len |-> n, cap |-> c], h |-> Append(h, a)]

(***************************************************************************)
(* State.                                                                  *)
(*   loggers  the logger structs, in order of creation (1 is New's)        *)
(*   mu       the RWMutex of each logger: its writer and its readers       *)
(*   heap     the backing arrays of the keyvals slices                     *)
(*   sink     the Write calls made so far, on any io.Writer                *)
(*   pc, cur  each thread's position and the locals of its call            *)
(*   acc      the accesses to logger fields made by the last step          *)
(*   nops     the calls each thread has started                            *)
(*   derived  for each logger, its parent, the keyvals given to With and   *)
(*            the static attributes it was created with                    *)
(*   esc      a direct call of writeEscapedForOutput on a buffer of its    *)
(*            own: the arguments, and the bytes written once it returned   *)
(***************************************************************************)
Sinks == {"stderr", "discard"}

Fields == {"w", "level", "prefix", "timeFunc", "timeFormat", "callerOffset",
           "caller", "noColor", "timestamp", "keyvals"}

FreeMu == [w |-> "none", r |-> {}]

\* New(opts...): the struct literal of lines 42-47, the options, the defaults
\* of lines 53-63.  o.w = "nil", o.timeFunc = "nil" and o.timeFormat = ""
\* stand for an option not given.
New(o) ==
  [w |-> IF o.w = "nil" THEN "stderr" ELSE o.w,
   b |-> <<>>,
   level |-> o.level,
   prefix |-> o.prefix,
   timeFunc |-> IF o.timeFunc = "nil" THEN "Now" ELSE o.timeFunc,
   timeFormat |-> IF o.timeFormat = "" THEN DefaultTimeFormat ELSE o.timeFormat,
   callerOffset |-> 2,
   caller |-> o.caller,
   noColor |-> o.noColor,
   timestamp |-> o.timestamp,
   keyvals |-> o.keyvals]

IdleCur ==
  [op |-> "none", l |-> 0, lv |-> 0, msg |-> NilV, kvs |-> <<>>,
   level |-> 0, w |-> "nil", tm |-> 0, kv |-> NilSlice, priv |-> <<>>,
   mine |-> <<>>, writes |-> 0, sl |-> <<>>, ret |-> <<>>]

Held(t, l) ==
  IF mu[l].w = t THEN "w" ELSE IF t \in mu[l].r THEN "r" ELSE "none"

\* One access to field f of logger l by thread t, with the lock t holds.
Access(t, l, f, rw) == [t |-> t, l |-> l, f |-> f, rw |-> rw, held |-> Held(t, l)]

\* A Lock that is granted while readers or another writer hold the lock.
CanLock_Always(m) == TRUE

\* A Lock that is granted while another writer holds the lock.
CanLock_IgnoresWriter(m) == m.r = {}

\* sync.RWMutex: RLock is granted when no writer holds the lock, Lock when
\* nobody holds it.
CanRLock(m) == m.w = "none"
CanLock(m) == m.w = "none" /\ m.r = {}

\* The elements of the local keyvals of log: of a shared array of the heap,
\* or of the array append allocated for this call alone.
LocalElems(h, c) ==
  IF c.kv.arr = 0 THEN SubSeq(c.priv, 1, c.kv.len) ELSE SubSeq(h[c.kv.arr], 1, c.kv.len)

\* append on the local keyvals of log.  An array append allocates here is
\* reachable from this call only: it is kept in the call's locals (kv.arr = 0).
LocalAppend(h, kv, priv, vs) ==
  IF kv.arr # 0
    THEN LET r == AppendSlice(h, kv, vs) IN
         IF Len(r.h) = Len(h)
           THEN [kv |-> r.s, priv |-> <<>>, h |-> r.h]
           ELSE [kv |-> [r.s EXCEPT !.arr = 0], priv |-> r.h[Len(r.h)], h |-> h]
    ELSE LET own == IF kv.cap = 0 THEN <<>> ELSE <<priv>>
             s0 == IF kv.cap = 0 THEN NilSlice ELSE [kv EXCEPT !.arr = 1]
             r == AppendSlice(own, s0, vs)
         IN [kv |-> [r.s EXCEPT !.arr = 0],
             priv |-> IF r.s.arr = 0 THEN <<>> ELSE r.h[r.s.arr],
             h |-> h]

\* Line 244: len(keyvals)%2 != 0.
NeedsMissingValue(n) == n % 2 # 0

\* A log that puts the call's keyvals before the static attributes.
LogKeyvals_ExtrasFirst(h, statics, kvs) ==
  LET all == kvs \o Elems(h, statics)
      padded == IF NeedsMissingValue(Len(all)) THEN all \o <<MISSING_VALUE>> ELSE all
  IN [kv |-> [arr |-> 0, len |-> Len(padded), cap |-> Len(padded)], priv |-> padded, h |-> h]

\* A log that completes an odd list with nil instead of MISSING_VALUE.
LogKeyvals_PadNil(h, statics, kvs) ==
  LET r1 == LocalAppend(h, statics, <<>>, kvs) IN
  IF NeedsMissingValue(r1.kv.len)
    THEN LocalAppend(r1.h, r1.kv, r1.priv, <<NilV>>)
    ELSE r1

\* Lines 243-246: keyvals = append(l.keyvals, keyvals...), then MISSING_VALUE
\* when the length is odd.
LogKeyvals(h, statics, kvs) ==
  LET r1 == LocalAppend(h, statics, <<>>, kvs) IN
  IF NeedsMissingValue(r1.kv.len)
    THEN LocalAppend(r1.h, r1.kv, r1.priv, <<MISSING_VALUE>>)
    ELSE r1

\* A gate that also rejects a call at the threshold itself.
GateRejects_AtThreshold(level, lv) == level >= lv

\* A gate that lets every call through.
GateRejects_Never(level, lv) == FALSE

\* The level gate of the severity methods: level > DebugLevel, and so on.
GateRejects(level, lv) == level > lv

(***************************************************************************)
(* The severity methods and logger.log.                                    *)
(***************************************************************************)
\* Lines 414-415 (425-426, ...): RLock, level := l.level.
Severity(t, l, lv, msg, kvs) ==
  /\ pc[t] = "idle"
  /\ l \in 1..Len(loggers)
  /\ CanRLock(mu[l])
  /\ mu' = [mu EXCEPT ![l].r = @ \cup {t}]
  /\ cur' = [cur EXCEPT ![t] = [IdleCur EXCEPT !.op = "sev", !.l = l, !.lv = lv,
                                  !.msg = msg, !.kvs = kvs, !.level = loggers[l].level]]
  /\ acc' = {[t |-> t, l |-> l, f |-> "level", rw |-> "r", held |-> "r"]}
  /\ pc' = [pc EXCEPT ![t] = "sev_rul"]
  /\ nops' = [nops EXCEPT ![t] = @ + 1]
  /\ UNCHANGED <<loggers, heap, sink, derived, esc>>

Debug(t, l, msg, kvs) == Severity(t, l, DebugLevel, msg, kvs)
Info(t, l, msg, kvs) == Severity(t, l, InfoLevel, msg, kvs)
Warn(t, l, msg, kvs) == Severity(t, l, WarnLevel, msg, kvs)
Error(t, l, msg, kvs) == Severity(t, l, ErrorLevel, msg, kvs)

\* Lines 416-420: RUnlock, then return or call log.
SevGate(t) ==
  /\ pc[t] = "sev_rul"
  /\ mu' = [mu EXCEPT ![cur[t].l].r = @ \ {t}]
  /\ pc' = [pc EXCEPT ![t] = IF GateRejects(cur[t].level, cur[t].lv) THEN "ret" ELSE "log_rl"]
  /\ acc' = {}
  /\ UNCHANGED <<loggers, heap, sink, cur, nops, derived, esc>>

\* Lines 185-186: RLock, w := l.w.
LogReadSink(t) ==
  /\ pc[t] = "log_rl"
  /\ CanRLock(mu[cur[t].l])
  /\ mu' = [mu EXCEPT ![cur[t].l].r = @ \cup {t}]
  /\ cur' = [cur EXCEPT ![t].w = loggers[cur[t].l].w]
  /\ acc' = {[t |-> t, l |-> cur[t].l, f |-> "w", rw |-> "r", held |-> "r"]}
  /\ pc' = [pc EXCEPT ![t] = "log_rul"]
  /\ UNCHANGED <<loggers, heap, sink, nops, derived, esc>>

\* A check that goes on to format whatever the sink is.
LogDiscardCheck_NoReturn(t) ==
  /\ pc[t] = "log_rul"
  /\ mu' = [mu EXCEPT ![cur[t].l].r = @ \ {t}]
  /\ pc' = [pc EXCEPT ![t] = "log_time"]
  /\ acc' = {}
  /\ UNCHANGED <<loggers, heap, sink, cur, nops, derived, esc>>

\* Lines 187-190: RUnlock, return when the sink is io.Discard.
LogDiscardCheck(t) ==
  /\ pc[t] = "log_rul"
  /\ mu' = [mu EXCEPT ![cur[t].l].r = @ \ {t}]
  /\ pc' = [pc EXCEPT ![t] = IF cur[t].w = "discard" THEN "ret" ELSE "log_time"]
  /\ acc' = {}
  /\ UNCHANGED <<loggers, heap, sink, cur, nops, derived, esc>>

\* Line 192: t := l.timeFunc(), with no lock held.
LogTime(t) ==
  /\ pc[t] = "log_time"
  /\ cur' = [cur EXCEPT ![t].tm = CallTimeFunc(loggers[cur[t].l].timeFunc)]
  /\ acc' = {Access(t, cur[t].l, "timeFunc", "r")}
  /\ pc' = [pc EXCEPT ![t] = "log_lock"]
  /\ UNCHANGED <<loggers, mu, heap, sink, nops, derived, esc>>

\* Lines 194-241: Lock, then the header of the record into the buffer.
LogLockHeader(t) ==
  LET l == cur[t].l
      hd == Header(loggers[l], cur[t].lv, cur[t].tm, cur[t].msg)
  IN /\ pc[t] = "log_lock"
     /\ CanLock(mu[l])
     /\ mu' = [mu EXCEPT ![l].w = t]
     /\ loggers' = [loggers EXCEPT ![l].b = @ \o hd]
     /\ cur' = [cur EXCEPT ![t].mine = hd]
     /\ acc' = {[t |-> t, l |-> l, f |-> f, rw |-> "r", held |-> "w"] :
                  f \in {"timestamp", "timeFormat", "noColor", "caller",
                         "callerOffset", "prefix"}}
     /\ pc' = [pc EXCEPT ![t] = "log_kv"]
     /\ UNCHANGED <<heap, sink, nops, derived, esc>>

\* Lines 243-246: the static attributes, the call's keyvals, MISSING_VALUE.
LogAppendKeyvals(t) ==
  LET l == cur[t].l
      r == LogKeyvals(heap, loggers[l].keyvals, cur[t].kvs)
  IN /\ pc[t] = "log_kv"
     /\ heap' = r.h
     /\ cur' = [cur EXCEPT ![t].kv = r.kv, ![t].priv = r.priv]
     /\ acc' = {Access(t, l, "keyvals", "r")}
     /\ pc' = [pc EXCEPT ![t] = "log_fmt"]
     /\ UNCHANGED <<loggers, mu, sink, nops, derived, esc>>

\* Lines 248-292: the pairs and the final newline into the buffer.
LogFormatPairs(t) ==
  LET l == cur[t].l
      out == FormatPairs(LocalElems(heap, cur[t]), loggers[l].noColor)
  IN /\ pc[t] = "log_fmt"
     /\ loggers' = [loggers EXCEPT ![l].b = @ \o out]
     /\ cur' = [cur EXCEPT ![t].mine = @ \o out]
     /\ acc' = {Access(t, l, "noColor", "r")}
     /\ pc' = [pc EXCEPT ![t] = "log_write"]
     /\ UNCHANGED <<mu, heap, sink, nops, derived, esc>>

\* Line 294: l.w.Write(l.b.Bytes()) is called: the sink receives the bytes.
LogWrite(t) ==
  LET l == cur[t].l IN
  /\ pc[t] = "log_write"
  /\ sink' = Append(sink, [t |-> t, l |-> l, w |-> loggers[l].w, bytes |-> loggers[l].b])
  /\ cur' = [cur EXCEPT ![t].writes = @ + 1]
  /\ acc' = {Access(t, l, "w", "r")}
  /\ pc' = [pc EXCEPT ![t] = "log_wret"]
  /\ UNCHANGED <<loggers, mu, heap, nops, derived, esc>>

\* Line 294: the Write returns; its result is not looked at.
LogWriteReturn(t) ==
  /\ pc[t] = "log_wret"
  /\ acc' = {}
  /\ pc' = [pc EXCEPT ![t] = "log_defer"]
  /\ UNCHANGED <<loggers, mu, heap, sink, cur, nops, derived, esc>>

\* A deferred part that unlocks and leaves the buffer as it is.
LogDefer_NoReset(t) ==
  LET l == cur[t].l IN
  /\ pc[t] = "log_defer"
  /\ mu' = [mu EXCEPT ![l].w = "none"]
  /\ acc' = {}
  /\ pc' = [pc EXCEPT ![t] = "ret"]
  /\ UNCHANGED <<loggers, heap, sink, cur, nops, derived, esc>>

\* Lines 195-196, deferred: l.b.Reset(), then l.mu.Unlock().
LogDefer(t) ==
  LET l == cur[t].l IN
  /\ pc[t] = "log_defer"
  /\ loggers' = [loggers EXCEPT ![l].b = <<>>]
  /\ mu' = [mu EXCEPT ![l].w = "none"]
  /\ acc' = {}
  /\ pc' = [pc EXCEPT ![t] = "ret"]
  /\ UNCHANGED <<heap, sink, cur, nops, derived, esc>>

\* The call returns to its caller.
Return(t) ==
  /\ pc[t] = "ret"
  /\ pc' = [pc EXCEPT ![t] = "idle"]
  /\ cur' = [cur EXCEPT ![t] = IdleCur]
  /\ acc' = {}
  /\ UNCHANGED <<loggers, mu, heap, sink, nops, derived, esc>>

(***************************************************************************)
(* Setters and getters.                                                    *)
(***************************************************************************)
\* Lock, defer Unlock, then the assignment to the field.
LockedSet(t, l, f, v) ==
  /\ pc[t] = "idle"
  /\ l \in 1..Len(loggers)
  /\ CanLock(mu[l])
  /\ mu' = [mu EXCEPT ![l].w = t]
  /\ loggers' = [loggers EXCEPT ![l][f] = v]
  /\ cur' = [cur EXCEPT ![t] = [IdleCur EXCEPT !.op = "set", !.l = l]]
  /\ acc' = {[t |-> t, l |-> l, f |-> f, rw |-> "w", held |-> "w"]}
  /\ pc' = [pc EXCEPT ![t] = "set_ul"]
  /\ nops' = [nops EXCEPT ![t] = @ + 1]
  /\ UNCHANGED <<heap, sink, derived, esc>>

EnableTimestamp(t, l) == LockedSet(t, l, "timestamp", TRUE)
EnableCaller(t, l) == LockedSet(t, l, "caller", TRUE)
DisableCaller(t, l) == LockedSet(t, l, "caller", FALSE)
SetLevel(t, l, level) == LockedSet(t, l, "level", level)
SetPrefix(t, l, prefix) == LockedSet(t, l, "prefix", prefix)
SetTimeFormat(t, l, format) == LockedSet(t, l, "timeFormat", format)
SetTimeFunction(t, l, f) == LockedSet(t, l, "timeFunc", f)
SetOutput(t, l, w) == LockedSet(t, l, "w", w)

\* Line 335: l.timestamp = false, before the lock is taken.
DisableTimestamp(t, l) ==
  /\ pc[t] = "idle"
  /\ l \in 1..Len(loggers)
  /\ loggers' = [loggers EXCEPT ![l].timestamp = FALSE]
  /\ cur' = [cur EXCEPT ![t] = [IdleCur EXCEPT !.op = "set", !.l = l]]
  /\ acc' = {Access(t, l, "timestamp", "w")}
  /\ pc' = [pc EXCEPT ![t] = "dt_lock"]
  /\ nops' = [nops EXCEPT ![t] = @ + 1]
  /\ UNCHANGED <<mu, heap, sink, derived, esc>>

\* Lines 336-337: Lock, defer Unlock.
DisableTimestampLock(t) ==
  /\ pc[t] = "dt_lock"
  /\ CanLock(mu[cur[t].l])
  /\ mu' = [mu EXCEPT ![cur[t].l].w = t]
  /\ acc' = {}
  /\ pc' = [pc EXCEPT ![t] = "set_ul"]
  /\ UNCHANGED <<loggers, heap, sink, cur, nops, derived, esc>>

\* A setter that returns with the lock still held.
SetUnlock_KeepLock(t) ==
  /\ pc[t] = "set_ul"
  /\ acc' = {}
  /\ pc' = [pc EXCEPT ![t] = "ret"]
  /\ UNCHANGED <<loggers, mu, heap, sink, cur, nops, derived, esc>>

\* The deferred Unlock of a setter.
SetUnlock(t) ==
  /\ pc[t] = "set_ul"
  /\ mu' = [mu EXCEPT ![cur[t].l].w = "none"]
  /\ acc' = {}
  /\ pc' = [pc EXCEPT ![t] = "ret"]
  /\ UNCHANGED <<loggers, heap, sink, cur, nops, derived, esc>>

\* RLock, defer RUnlock, read the field.
LockedGet(t, l, f) ==
  /\ pc[t] = "idle"
  /\ l \in 1..Len(loggers)
  /\ CanRLock(mu[l])
  /\ mu' = [mu EXCEPT ![l].r = @ \cup {t}]
  /\ cur' = [cur EXCEPT ![t] = [IdleCur EXCEPT !.op = "get", !.l = l, !.ret = <<loggers[l][f]>>]]
  /\ acc' = {[t |-> t, l |-> l, f |-> f, rw |-> "r", held |-> "r"]}
  /\ pc' = [pc EXCEPT ![t] = "get_rul"]
  /\ nops' = [nops EXCEPT ![t] = @ + 1]
  /\ UNCHANGED <<loggers, heap, sink, derived, esc>>

GetLevel(t, l) == LockedGet(t, l, "level")
GetPrefix(t, l) == LockedGet(t, l, "prefix")

\* The deferred RUnlock of a getter.
GetUnlock(t) ==
  /\ pc[t] = "get_rul"
  /\ mu' = [mu EXCEPT ![cur[t].l].r = @ \ {t}]
  /\ acc' = {}
  /\ pc' = [pc EXCEPT ![t] = "ret"]
  /\ UNCHANGED <<loggers, heap, sink, cur, nops, derived, esc>>

(***************************************************************************)
(* With.                                                                   *)
(***************************************************************************)
\* Line 405: sl := *l, a copy of every field, with no lock held.
With(t, l, kvs) ==
  /\ pc[t] = "idle"
  /\ l \in 1..Len(loggers)
  /\ Len(loggers) + Cardinality({u \in Threads : pc[u] = "with_app"}) < MaxLoggers
  /\ cur' = [cur EXCEPT ![t] = [IdleCur EXCEPT !.op = "with", !.l = l, !.kvs = kvs,
                                  !.sl = <<loggers[l]>>]]
  /\ acc' = {Access(t, l, f, "r") : f \in Fields}
  /\ pc' = [pc EXCEPT ![t] = "with_app"]
  /\ nops' = [nops EXCEPT ![t] = @ + 1]
  /\ UNCHANGED <<loggers, mu, heap, sink, derived, esc>>

\* The struct With returns: lines 406-408 applied to the copy sl, with the
\* slice s that append gave.
WithResult(sl, s) == [sl EXCEPT !.b = <<>>, !.keyvals = s]

\* A With that stores the appended slice in the parent as well.
WithAppend_IntoParent(t) ==
  LET l == cur[t].l
      r == AppendSlice(heap, loggers[l].keyvals, cur[t].kvs)
  IN /\ pc[t] = "with_app"
     /\ loggers' = Append([loggers EXCEPT ![l].keyvals = r.s], WithResult(cur[t].sl[1], r.s))
     /\ mu' = Append(mu, FreeMu)
     /\ heap' = r.h
     /\ derived' = Append(derived, [parent |-> l, kv |-> cur[t].kvs,
                                    attrs |-> Elems(heap, loggers[l].keyvals) \o cur[t].kvs])
     /\ cur' = [cur EXCEPT ![t].ret = <<Len(loggers) + 1>>]
     /\ acc' = {Access(t, l, "keyvals", "r")}
     /\ pc' = [pc EXCEPT ![t] = "ret"]
     /\ UNCHANGED <<sink, nops, esc>>

\* Lines 406-409: a fresh buffer and lock, sl.keyvals = append(l.keyvals,
\* keyvals...), return &sl.
WithAppend(t) ==
  LET l == cur[t].l
      r == AppendSlice(heap, loggers[l].keyvals, cur[t].kvs)
  IN /\ pc[t] = "with_app"
     /\ loggers' = Append(loggers, WithResult(cur[t].sl[1], r.s))
     /\ mu' = Append(mu, FreeMu)
     /\ heap' = r.h
     /\ derived' = Append(derived, [parent |-> l, kv |-> cur[t].kvs,
                                    attrs |-> Elems(heap, loggers[l].keyvals) \o cur[t].kvs])
     /\ cur' = [cur EXCEPT ![t].ret = <<Len(loggers) + 1>>]
     /\ acc' = {Access(t, l, "keyvals", "r")}
     /\ pc' = [pc EXCEPT ![t] = "ret"]
     /\ UNCHANGED <<sink, nops, esc>>

\* The steps that continue a call already started by thread t.
LogSteps(t) ==
  \/ SevGate(t)
  \/ LogReadSink(t)
  \/ LogDiscardCheck(t)
  \/ LogTime(t)
  \/ LogLockHeader(t)
  \/ LogAppendKeyvals(t)
  \/ LogFormatPairs(t)
  \/ LogWrite(t)
  \/ LogWriteReturn(t)
  \/ LogDefer(t)
  \/ Return(t)

SetSteps(t) == DisableTimestampLock(t) \/ SetUnlock(t)

(***************************************************************************)
(* Inputs.                                                                 *)
(***************************************************************************)
MsgM == StrV(<<109>>)
KeyK == StrV(<<107>>)
KeyF == StrV(<<102>>)
KeyW == StrV(<<119>>)

\* The keyvals of a severity call: none, a key alone, a pair whose key is
\* also the key of a static attribute.
CallKeyvals == {<<>>, <<KeyK>>, <<KeyF, IntV(3)>>}

\* The keyvals of the With call that creates logger id: a value alone or a
\* pair, with a value no other call supplies.
WithKeyvals(id) == {<<IntV(10 + id)>>, <<KeyW, IntV(10 + id)>>}

\* The slices WithLogFields can be given: none (nil), or the pair f=1 in an
\* array with 0..MaxSpare unused cells after it.
FieldSlices == {NilSlice} \cup {[arr |-> 1, len |-> 2, cap |-> 2 + sp] : sp \in 0..MaxSpare}

FieldHeap(s) ==
  IF s.arr = 0 THEN <<>>
  ELSE <<[i \in 1..s.cap |-> IF i = 1 THEN KeyF ELSE IF i = 2 THEN IntV(1) ELSE NilV]>>

DefaultOpts ==
  [w |-> "nil", level |-> InfoLevel, prefix |-> <<>>, timeFunc |-> "nil",
   timeFormat |-> "", caller |-> FALSE, noColor |-> FALSE, timestamp |-> FALSE,
   keyvals |-> NilSlice]

\* No direct call of writeEscapedForOutput is made.
NoEscCall == [str |-> <<>>, escapeQuotes |-> FALSE, out |-> <<>>, done |-> FALSE]

\* The logger, its lock and the threads after New(opts...) with the options o.
InitLogger(o) ==
  /\ loggers = <<New(o)>>
  /\ mu = <<FreeMu>>
  /\ heap = FieldHeap(o.keyvals)
  /\ sink = <<>>
  /\ pc = [t \in Threads |-> "idle"]
  /\ cur = [t \in Threads |-> IdleCur]
  /\ acc = {}
  /\ nops = [t \in Threads |-> 0]
  /\ derived = <<[parent |-> 0, kv |-> <<>>, attrs |-> Elems(FieldHeap(o.keyvals), o.keyvals)]>>

\* The state after New(opts...) with the options o.
InitWith(o) == InitLogger(o) /\ esc = NoEscCall

(***************************************************************************)
(* Spec: two threads call the logger and the loggers derived from it       *)
(* concurrently, MaxOps calls in all.                                      *)
(***************************************************************************)
Init ==
  \E ks \in {NilSlice, [arr |-> 1, len |-> 2, cap |-> 2 + MaxSpare]} :
    InitWith([DefaultOpts EXCEPT !.timestamp = TRUE, !.keyvals = ks])

Start(t) ==
  \E l \in 1..MaxLoggers :
    \/ Debug(t, l, MsgM, <<KeyK>>)
    \/ Info(t, l, MsgM, <<KeyK>>)
    \/ Warn(t, l, MsgM, <<KeyK>>)
    \/ Error(t, l, MsgM, <<KeyK>>)
    \/ EnableTimestamp(t, l)
    \/ DisableTimestamp(t, l)
    \/ EnableCaller(t, l)
    \/ DisableCaller(t, l)
    \/ \E level \in {DebugLevel, ErrorLevel} : SetLevel(t, l, level)
    \/ SetPrefix(t, l, <<112>>)
    \/ SetTimeFormat(t, l, Kitchen)
    \/ SetTimeFunction(t, l, "Fixed")
    \/ SetOutput(t, l, "discard")
    \/ GetLevel(t, l)
    \/ GetPrefix(t, l)
    \/ With(t, l, <<IntV(11 + Len(loggers))>>)

Started == nops["t1"] + nops["t2"]

Next ==
  \E t \in Threads :
    \/ Started < MaxOps /\ Start(t)
    \/ LogSteps(t)
    \/ SetSteps(t)
    \/ GetUnlock(t)
    \/ WithAppend(t)

Spec == Init /\ [][Next]_vars

(***************************************************************************)
(* SpecSeq: one thread makes up to MaxSeqOps calls, one after another, on  *)
(* the logger and the loggers derived from it.                             *)
(***************************************************************************)
InitSeq ==
  \E nc \in BOOLEAN, ks \in {NilSlice, [arr |-> 1, len |-> 2, cap |-> 2 + MaxSpare]} :
    InitWith([DefaultOpts EXCEPT !.noColor = nc, !.keyvals = ks])

StartSeq(t) ==
  \E l \in 1..MaxLoggers :
    \/ \E kvs \in CallKeyvals : Debug(t, l, MsgM, kvs)
    \/ \E kvs \in CallKeyvals : Info(t, l, MsgM, kvs)
    \/ \E kvs \in CallKeyvals : Warn(t, l, MsgM, kvs)
    \/ \E kvs \in CallKeyvals : Error(t, l, MsgM, kvs)
    \/ EnableTimestamp(t, l)
    \/ DisableTimestamp(t, l)
    \/ EnableCaller(t, l)
    \/ DisableCaller(t, l)
    \/ \E level \in {DebugLevel, ErrorLevel} : SetLevel(t, l, level)
    \/ SetPrefix(t, l, <<112>>)
    \/ SetTimeFormat(t, l, Kitchen)
    \/ SetTimeFunction(t, l, "Fixed")
    \/ SetOutput(t, l, "discard")
    \/ \E kvs \in WithKeyvals(Len(loggers) + 1) : With(t, l, kvs)

NextSeq ==
  \/ nops["t1"] < MaxSeqOps /\ StartSeq("t1")
  \/ LogSteps("t1")
  \/ SetSteps("t1")
  \/ WithAppend("t1")

SpecSeq == InitSeq /\ [][NextSeq]_vars

(***************************************************************************)
(* SpecLevel: one thread makes up to MaxSeqOps severity, SetLevel and      *)
(* SetOutput calls, one after another, on a logger built with any level.   *)
(***************************************************************************)
InitLevel ==
  \E lv \in Levels : InitWith([DefaultOpts EXCEPT !.level = lv])

StartLevel(t) ==
  \/ \E kvs \in {<<>>, <<KeyK>>} : Debug(t, 1, MsgM, kvs)
  \/ \E kvs \in {<<>>, <<KeyK>>} : Info(t, 1, MsgM, kvs)
  \/ \E kvs \in {<<>>, <<KeyK>>} : Warn(t, 1, MsgM, kvs)
  \/ \E kvs \in {<<>>, <<KeyK>>} : Error(t, 1, MsgM, kvs)
  \/ \E level \in Levels : SetLevel(t, 1, level)
  \/ \E w \in Sinks : SetOutput(t, 1, w)

NextLevel ==
  \/ nops["t1"] < MaxSeqOps /\ StartLevel("t1")
  \/ LogSteps("t1")
  \/ SetUnlock("t1")

SpecLevel == InitLevel /\ [][NextLevel]_vars

(***************************************************************************)
(* SpecRender: one Info call with one pair, whose value is any text of up  *)
(* to MaxTextLen runes of RenderRunes, on a logger with or without colour. *)
(***************************************************************************)
RenderRunes == {97, SPACE, DQUOTE, NL, 9, TILDE}

RECURSIVE TextsOfLen(_)
TextsOfLen(n) ==
  IF n = 0 THEN {<<>>}
  ELSE {Append(s, r) : s \in TextsOfLen(n - 1), r \in RenderRunes}

Texts == UNION {TextsOfLen(n) : n \in 0..MaxTextLen}

InitRender ==
  \E nc \in BOOLEAN : InitWith([DefaultOpts EXCEPT !.noColor = nc])

NextRender ==
  \/ nops["t1"] = 0 /\ \E s \in Texts : Info("t1", 1, MsgM, <<KeyK, StrV(s)>>)
  \/ LogSteps("t1")

SpecRender == InitRender /\ [][NextRender]_vars

(***************************************************************************)
(* SpecEscape: writeEscapedForOutput is called once, on a buffer of its    *)
(* own, with any text of up to MaxEscLen runes of EscapeRunes, or the text *)
(* of all seven named control characters between two letters, and with     *)
(* either value of escapeQuotes.                                           *)
(***************************************************************************)
EscapeRunes == {7, 8, 9, NL, 11, 12, 13, 1, 27, DQUOTE, 97, 233}

AllControls == <<97, 7, 8, 12, NL, 13, 9, 11, 97>>

RECURSIVE EscTextsOfLen(_)
EscTextsOfLen(n) ==
  IF n = 0 THEN {<<>>}
  ELSE {Append(s, r) : s \in EscTextsOfLen(n - 1), r \in EscapeRunes}

EscTexts == UNION {EscTextsOfLen(n) : n \in 0..MaxEscLen} \cup {AllControls}

InitEscape ==
  /\ InitLogger(DefaultOpts)
  /\ \E str \in EscTexts, eq \in BOOLEAN :
       esc = [str |-> str, escapeQuotes |-> eq, out |-> <<>>, done |-> FALSE]

\* writeEscapedForOutput(w, str, escapeQuotes) on an empty buffer w.
EscapeCall ==
  /\ ~esc.done
  /\ esc' = [esc EXCEPT !.out = writeEscapedForOutput(esc.str, esc.escapeQuotes),
                        !.done = TRUE]
  /\ UNCHANGED <<loggers, mu, heap, sink, pc, cur, acc, nops, derived>>

NextEscape == EscapeCall

SpecEscape == InitEscape /\ [][NextEscape]_vars

(***************************************************************************)
(* SpecLayout: one Info or Error call, with or without a message, with     *)
(* well-formed and malformed keyvals, on a logger built with any of the    *)
(* timestamp, caller, prefix and colour settings.                          *)
(***************************************************************************)
MsgStart == StrV(<<115, 116, 97, 114, 116>>)
KeyCount == StrV(<<99, 111, 117, 110, 116>>)
EmptyV == StrV(<<>>)

LayoutKeyvals ==
  {<<>>, <<KeyCount, IntV(3)>>, <<KeyCount, EmptyV>>, <<EmptyV, IntV(3)>>,
   <<EmptyV, EmptyV>>, <<KeyCount, EmptyV, KeyK, IntV(3)>>, <<KeyK, NilV>>,
   <<EmptyV>>}

InitLayout ==
  \E nc \in BOOLEAN, ts \in BOOLEAN, ca \in BOOLEAN, pr \in {<<>>, <<112>>} :
    InitWith([DefaultOpts EXCEPT !.noColor = nc, !.timestamp = ts, !.caller = ca,
                                 !.prefix = pr])

NextLayout ==
  \/ nops["t1"] = 0 /\ \E msg \in {NilV, MsgStart}, kvs \in LayoutKeyvals :
                         Info("t1", 1, msg, kvs) \/ Error("t1", 1, msg, kvs)
  \/ LogSteps("t1")

SpecLayout == InitLayout /\ [][NextLayout]_vars

(***************************************************************************)
(* SpecDiscard: two threads make MaxDiscardOps calls in all, severity      *)
(* calls and setters, on a logger built with WithLogOutput(io.Discard).    *)
(***************************************************************************)
InitDiscard == InitWith([DefaultOpts EXCEPT !.w = "discard"])

StartDiscard(t) ==
  \/ Debug(t, 1, MsgM, <<KeyK>>)
  \/ Info(t, 1, MsgM, <<KeyK>>)
  \/ \E w \in Sinks : SetOutput(t, 1, w)
  \/ SetPrefix(t, 1, <<112>>)
  \/ SetTimeFunction(t, 1, "Fixed")

NextDiscard ==
  \E t \in Threads :
    \/ Started < MaxDiscardOps /\ StartDiscard(t)
    \/ LogSteps(t)
    \/ SetUnlock(t)

SpecDiscard == InitDiscard /\ [][NextDiscard]_vars

(***************************************************************************)
(* SpecFair: two threads make MaxFairOps calls in all on one logger,       *)
(* severity calls, setters and a getter, under a scheduler that lets every *)
(* thread that can take a step of its call take one, and with a sink whose *)
(* Write returns.                                                          *)
(***************************************************************************)
InitFair == InitWith(DefaultOpts)

StartFair(t) ==
  \/ Debug(t, 1, MsgM, <<>>)
  \/ Info(t, 1, MsgM, <<>>)
  \/ SetLevel(t, 1, DebugLevel)
  \/ DisableTimestamp(t, 1)
  \/ SetOutput(t, 1, "discard")
  \/ GetLevel(t, 1)

\* The steps that continue the call thread t is in.
Continue(t) == LogSteps(t) \/ SetSteps(t) \/ GetUnlock(t)

NextFair ==
  \E t \in Threads :
    \/ Started < MaxFairOps /\ StartFair(t)
    \/ Continue(t)

SpecFair == InitFair /\ [][NextFair]_vars /\ \A t \in Threads : WF_vars(Continue(t))

(***************************************************************************)
(* SpecShared: a logger is derived from the logger with With, then two     *)
(* threads make MaxSharedOps severity calls in all through the parent and  *)
(* the derived logger, which write to the same sink.                       *)
(***************************************************************************)
InitShared == InitWith(DefaultOpts)

StartShared(t) ==
  \/ /\ Len(loggers) = 1 /\ t = "t1" /\ Started = 0
     /\ With(t, 1, <<KeyW, IntV(12)>>)
  \/ /\ Len(loggers) = 2 /\ Started < 1 + MaxSharedOps
     /\ \E l \in 1..2 : Info(t, l, MsgM, <<>>) \/ Error(t, l, MsgM, <<>>)

NextShared ==
  \E t \in Threads :
    \/ StartShared(t)
    \/ LogSteps(t)
    \/ WithAppend(t)

SpecShared == InitShared /\ [][NextShared]_vars

(***************************************************************************)
(* Properties.                                                             *)
(***************************************************************************)
CountRune(s, c) == Cardinality({i \in 1..Len(s) : s[i] = c})

\* pat occurs in s as a contiguous run.
Occurs(pat, s) ==
  \E i \in 0..(Len(s) - Len(pat)) : \A j \in 1..Len(pat) : s[i + j] = pat[j]

StartsWith(s, pre) == Len(pre) <= Len(s) /\ SubSeq(s, 1, Len(pre)) = pre

\* The static attributes logger l shows now.
Statics(l) == Elems(heap, loggers[l].keyvals)

\* The last Write made by thread t.
LastWriteBy(t) ==
  LET is == {i \in 1..Len(sink) : sink[i].t = t} IN
  sink[CHOOSE i \in is : \A j \in is : j <= i]

\* The loggers l was derived from, nearest first.
RECURSIVE Ancestors(_)
Ancestors(l) ==
  IF derived[l].parent = 0 THEN {}
  ELSE {derived[l].parent} \cup Ancestors(derived[l].parent)

\* C1: in sequential use, a severity call on a logger whose sink is not the
\* discard sink makes no Write when its level is below the logger's
\* threshold, and exactly one Write, of one newline-terminated record, when
\* its level is at or above the threshold.
C1_LevelGating ==
  \A t \in Threads :
    (pc[t] = "ret" /\ cur[t].op = "sev" /\ loggers[cur[t].l].w # "discard") =>
      /\ cur[t].writes = IF cur[t].lv < loggers[cur[t].l].level THEN 0 ELSE 1
      /\ cur[t].writes = 1 =>
           /\ LastWriteBy(t).l = cur[t].l
           /\ LastWriteBy(t).w = loggers[cur[t].l].w
           /\ CountRune(LastWriteBy(t).bytes, NL) = 1
           /\ LastWriteBy(t).bytes[Len(LastWriteBy(t).bytes)] = NL

\* C1 witness: after a completed SetLevel(WarnLevel), a Warn call has made
\* its one Write.
C1_Witness ==
  /\ pc["t1"] = "ret" /\ cur["t1"].op = "sev" /\ nops["t1"] = 2 /\ sink # <<>>
  /\ cur["t1"].lv = WarnLevel /\ loggers[1].level = WarnLevel
  /\ loggers[1].w = "stderr" /\ cur["t1"].writes = 1

\* C2 (as claimed): every logger shows exactly the static attributes it was
\* created with (its parent's at the time of With, then the keyvals given to
\* With), whatever calls were made since.
C2_DerivedAttrsStable ==
  \A d \in 1..Len(loggers) : Statics(d) = derived[d].attrs

\* What logger l shows to its users: every field but the scratch buffer, and
\* the static attributes.
View(l) == <<[loggers[l] EXCEPT !.b = <<>>], Statics(l)>>

\* The logger the single thread of SpecSeq is calling (0 when it is idle).
ActiveLogger == cur["t1"].l

\* C3: in sequential use, no step of a call made on a logger changes the
\* level, prefix, sink, flags, time settings or static attributes of a logger
\* it was derived from, and no record written by a logger contains the value
\* given only to the With call that created one of its descendants.
C3_ParentUnchanged ==
  /\ [][\A d \in 1..Len(loggers) :
          (d = ActiveLogger \/ d = ActiveLogger') =>
            \A p \in Ancestors(d) : View(p)' = View(p)]_vars
  /\ [](\A i \in 1..Len(sink) : \A d \in 1..Len(loggers) :
          sink[i].l \in Ancestors(d) => ~Occurs(Digits(10 + d), sink[i].bytes))

\* C3 witness: the parent has written a record after its derived logger was
\* created and was given a new prefix, and the derived logger shows the value
\* of its With.
C3_Witness ==
  /\ Len(loggers) >= 2 /\ derived[2].parent = 1
  /\ loggers[2].level # loggers[1].level
  /\ Occurs(<<IntV(12)>>, Statics(2))
  /\ \E i \in 1..Len(sink) : sink[i].l = 1
  /\ pc["t1"] = "ret" /\ cur["t1"].op = "sev" /\ cur["t1"].l = 1

\* The record a call must write: the header, then the pairs of kvs two by
\* two in order, then a newline.
RECURSIVE PairsInOrder(_, _)
PairsInOrder(kvs, noColor) ==
  IF Len(kvs) < 2 THEN <<>>
  ELSE FormatPair(kvs[1], kvs[2], noColor) \o PairsInOrder(SubSeq(kvs, 3, Len(kvs)), noColor)

Padded(kvs) == IF Len(kvs) % 2 = 1 THEN kvs \o <<MISSING_VALUE>> ELSE kvs

\* C8: in sequential use, the key/value part of every record written is the
\* logger's static attributes in order, then the call's keyvals in order,
\* then MISSING_VALUE when that makes an odd count, rendered pair by pair,
\* each pair once, duplicate keys kept.
C8_PairsInOrder ==
  \A t \in Threads :
    pc[t] = "log_defer" =>
      LET l == cur[t].l IN
      LastWriteBy(t).bytes =
        Header(loggers[l], cur[t].lv, cur[t].tm, cur[t].msg)
        \o PairsInOrder(Padded(Statics(l) \o cur[t].kvs), loggers[l].noColor)
        \o <<NL>>

\* C8 witness: a record was written for a call with the keyvals f, 3 on a
\* logger whose static attributes are f, 1 and a value alone: the key f
\* twice, and MISSING_VALUE at the end.
C8_Witness ==
  /\ pc["t1"] = "log_defer"
  /\ cur["t1"].kvs = <<KeyF, IntV(3)>>
  /\ Statics(cur["t1"].l) = <<KeyF, IntV(1), IntV(12)>>
  /\ loggers[cur["t1"].l].noColor

\* Another thread than t holds the lock of logger l, shared or exclusive.
OtherHolds(t, l) == mu[l].w \notin {"none", t} \/ mu[l].r \ {t} # {}

\* C4 (as claimed): no step writes a configuration field of a logger unless
\* the writing thread holds that logger's exclusive lock and no other thread
\* holds the lock.
C4_SettersWriteUnderLock ==
  \A a \in acc : a.rw = "w" => a.held = "w" /\ ~OtherHolds(a.t, a.l)

\* C5 (as claimed): no step reads a configuration field of a logger unless
\* the reading thread holds that logger's lock, shared or exclusive.
C5_ReadsUnderLock ==
  \A a \in acc : a.rw = "r" => a.held # "none"

\* The positions of log at which the thread holds the exclusive lock.
Formatting == {"log_kv", "log_fmt", "log_write", "log_wret", "log_defer"}

\* C6: with threads calling concurrently, a severity call that passed the
\* level gate and the discard check has made exactly one Write when it
\* returns, and any other none; the bytes of each Write are the bytes the
\* writing call itself put in the buffer, header first and newline last.
C6_OneWritePerCall ==
  \A t \in Threads :
    /\ (pc[t] = "ret" /\ cur[t].op = "sev") =>
         cur[t].writes =
           IF ~GateRejects(cur[t].level, cur[t].lv) /\ cur[t].w \notin {"nil", "discard"}
             THEN 1 ELSE 0
    /\ (pc[t] = "log_defer") =>
         /\ LastWriteBy(t).bytes = cur[t].mine
         /\ LastWriteBy(t).l = cur[t].l
         /\ cur[t].mine[Len(cur[t].mine)] = NL

\* C6 witness: two threads are inside log on the same logger at once, one
\* has just written its record and the other waits for the lock.
C6_Witness ==
  /\ pc["t1"] = "log_defer" /\ pc["t2"] = "log_lock"
  /\ cur["t1"].l = cur["t2"].l

\* C7: the scratch buffer of a logger is empty whenever no thread is inside
\* the locked part of log on that logger, and while a thread is inside it the
\* buffer holds the bytes of that call alone.
C7_BufferEmptyOutsideLog ==
  \A l \in 1..Len(loggers) :
    LET inside == {t \in Threads : pc[t] \in Formatting /\ cur[t].l = l} IN
    /\ inside = {} => loggers[l].b = <<>>
    /\ \A t \in inside : loggers[l].b = cur[t].mine

\* C7 witness: a thread formats a record on a logger that has already
\* written one.
C7_Witness ==
  \E t \in Threads :
    /\ pc[t] = "log_write"
    /\ \E i \in 1..Len(sink) : sink[i].l = cur[t].l /\ sink[i].w = "stderr"
    /\ loggers[cur[t].l].b # <<>>

\* strings.Split(s, "\n"): the segments of s between newlines.
RECURSIVE SplitLines(_)
SplitLines(s) ==
  LET nl == IndexByte(s, NL) IN
  IF nl = 0 THEN <<s>>
  ELSE <<SubSeq(s, 1, nl - 1)>> \o SplitLines(SubSeq(s, nl + 1, Len(s)))

\* The number of segments of s, not counting an empty final one.
NumSegments(s) ==
  LET segs == SplitLines(s) IN
  IF segs[Len(segs)] = <<>> THEN Len(segs) - 1 ELSE Len(segs)

\* The text of a key or value as the formatter holds it when it chooses the
\* form of the pair: the text itself with colour disabled, the styled text
\* otherwise.
Shown(l, s) == IF loggers[l].noColor THEN s ELSE Render(s)

\* What precedes the rendered value of the single pair of the call of
\* thread t in an inline record.
InlinePrefix(t) ==
  Header(loggers[cur[t].l], cur[t].lv, cur[t].tm, cur[t].msg)
  \o <<SPACE>> \o Shown(cur[t].l, Sprint(cur[t].kvs[1])) \o sep(<<61>>)

\* What precedes the bar-marked lines of the single pair of the call of
\* thread t in a multi-line record.
BlockPrefix(t) ==
  Header(loggers[cur[t].l], cur[t].lv, cur[t].tm, cur[t].msg)
  \o <<NL, SPACE, SPACE>> \o Shown(cur[t].l, Sprint(cur[t].kvs[1])) \o sep(<<61>>) \o <<NL>>

InlineValue(t) ==
  LET bytes == LastWriteBy(t).bytes IN
  SubSeq(bytes, Len(InlinePrefix(t)) + 1, Len(bytes) - 1)

\* x is a text in double quotes in which every inner double quote follows a
\* backslash, with as many inner double quotes as val has.
QuotedAndEscaped(x, val) ==
  /\ Len(x) >= 2 /\ x[1] = DQUOTE /\ x[Len(x)] = DQUOTE
  /\ \A i \in 2..(Len(x) - 1) : x[i] = DQUOTE => (i > 2 /\ x[i - 1] = 92)
  /\ CountRune(x, DQUOTE) = 2 + CountRune(val, DQUOTE)

\* C10 (as claimed): for every value text with a double quote or a space,
\* needsQuoting is true and the record holds the value in double quotes with
\* every inner double quote written as backslash-quote.
C10_QuotedWhenQuoteOrSpace ==
  \A t \in Threads :
    (pc[t] = "log_defer" /\ Len(cur[t].kvs) = 2
       /\ (ContainsRune(Sprint(cur[t].kvs[2]), DQUOTE)
             \/ ContainsRune(Sprint(cur[t].kvs[2]), SPACE))) =>
      /\ needsQuoting(Sprint(cur[t].kvs[2]))
      /\ StartsWith(LastWriteBy(t).bytes, InlinePrefix(t))
      /\ QuotedAndEscaped(InlineValue(t), Shown(cur[t].l, Sprint(cur[t].kvs[2])))

\* C10 (amended): the same for every value text with a double quote or a
\* space and no newline.
C10_QuotedWhenNoNewline ==
  \A t \in Threads :
    (pc[t] = "log_defer" /\ Len(cur[t].kvs) = 2
       /\ (ContainsRune(Sprint(cur[t].kvs[2]), DQUOTE)
             \/ ContainsRune(Sprint(cur[t].kvs[2]), SPACE))
       /\ ~ContainsRune(Sprint(cur[t].kvs[2]), NL)) =>
      /\ needsQuoting(Sprint(cur[t].kvs[2]))
      /\ StartsWith(LastWriteBy(t).bytes, InlinePrefix(t))
      /\ QuotedAndEscaped(InlineValue(t), Shown(cur[t].l, Sprint(cur[t].kvs[2])))

\* C10 witness: the value a, space, quote was written in quotes, with colour
\* disabled.
C10_Witness ==
  /\ pc["t1"] = "log_defer"
  /\ cur["t1"].kvs = <<KeyK, StrV(<<97, SPACE, DQUOTE>>)>>
  /\ loggers[1].noColor
  /\ InlineValue("t1") = <<DQUOTE, 97, SPACE, 92, DQUOTE, DQUOTE>>

\* The text is made only of the runes '-' (0x2D) through '~' (0x7E).
OnlyNormal(s) == \A i \in 1..Len(s) : DASH <= s[i] /\ s[i] <= TILDE

\* C11 (as claimed): with colour disabled, for every value text made only of
\* the runes '-' through '~', needsQuoting is false and the record is the
\* header, a space, the key, '=', the value text unchanged (no quotes, no
\* escape sequence) and the final newline.
C11_NormalUnquoted ==
  \A t \in Threads :
    (pc[t] = "log_defer" /\ Len(cur[t].kvs) = 2 /\ loggers[cur[t].l].noColor
       /\ OnlyNormal(Sprint(cur[t].kvs[2]))) =>
      /\ ~needsQuoting(Sprint(cur[t].kvs[2]))
      /\ LastWriteBy(t).bytes =
           Header(loggers[cur[t].l], cur[t].lv, cur[t].tm, cur[t].msg)
           \o <<SPACE>> \o Sprint(cur[t].kvs[1]) \o <<61>>
           \o Sprint(cur[t].kvs[2]) \o <<NL>>

\* The letter of the named escape of each of the seven control characters:
\* \a \b \f \n \r \t \v.
NamedEscapes ==
  (7 :> 97) @@ (8 :> 98) @@ (12 :> 102) @@ (10 :> 110) @@ (13 :> 114)
  @@ (9 :> 116) @@ (11 :> 118)

\* A lower-case hexadecimal digit.
HexChar(d) == IF d < 10 THEN 48 + d ELSE 87 + d

\* What one rune must become, for the runes of EscapeRunes.
ExpectedEscape(r, escapeQuotes) ==
  IF r \in DOMAIN NamedEscapes THEN <<92, NamedEscapes[r]>>
  ELSE IF r = DQUOTE THEN (IF escapeQuotes THEN <<92, DQUOTE>> ELSE <<DQUOTE>>)
  ELSE IF r < SPACE THEN <<92, 120, HexChar(r \div 16), HexChar(r % 16)>>
  ELSE <<r>>

RECURSIVE ExpectedOutput(_, _)
ExpectedOutput(str, escapeQuotes) ==
  IF str = <<>> THEN <<>>
  ELSE ExpectedEscape(Head(str), escapeQuotes) \o ExpectedOutput(Tail(str), escapeQuotes)

\* C13: what writeEscapedForOutput writes is its input mapped rune by rune,
\* in order: a named control character to backslash and its letter, a double
\* quote to backslash-quote when escapeQuotes is set and to itself when not,
\* any other rune below the space to \x and two lower-case hex digits, a
\* printable rune to itself; and an input with no non-printable rune and no
\* double quote is written unchanged.
C13_EscapesRuneByRune ==
  esc.done =>
    /\ esc.out = ExpectedOutput(esc.str, esc.escapeQuotes)
    /\ (\A i \in 1..Len(esc.str) : esc.str[i] \in {97, 233}) => esc.out = esc.str

\* C13 witness: the text a, \a \b \f \n \r \t \v, a was written as the seven
\* named escapes in that order between the two letters.
C13_Witness ==
  /\ esc.done /\ esc.str = AllControls
  /\ esc.out = <<97, 92, 97, 92, 98, 92, 102, 92, 110, 92, 114, 92, 116, 92, 118, 97>>

\* The key a pair must show: MISSING_KEY for a key whose text is empty.
KeyText(k) == IF Sprint(k) = <<>> THEN MISSING_KEY ELSE Sprint(k)

\* What a pair must be rendered as: with an empty value text, a space, the
\* key, '=' and the token of two double quotes (styled when colour is on),
\* nothing quoted or escaped; with an empty key text, what the pair with the
\* key MISSING_KEY is rendered as.
MalformedPair(l, k, v) ==
  IF Sprint(v) = <<>>
    THEN <<SPACE>> \o Shown(l, KeyText(k)) \o sep(<<61>>) \o Shown(l, <<DQUOTE, DQUOTE>>)
    ELSE FormatPair(StrV(KeyText(k)), v, loggers[l].noColor)

RECURSIVE MalformedPairs(_, _)
MalformedPairs(l, kvs) ==
  IF Len(kvs) < 2 THEN <<>>
  ELSE MalformedPair(l, kvs[1], kvs[2]) \o MalformedPairs(l, SubSeq(kvs, 3, Len(kvs)))

\* C12: a call with an empty value text or an empty key text makes exactly
\* one Write, of one record, in which a pair with an empty value text shows
\* the token of two double quotes, not quoted and not escaped, and a pair
\* with an empty key text shows the key MISSING_KEY.
C12_MalformedPairs ==
  \A t \in Threads :
    (pc[t] = "log_defer" /\ Len(cur[t].kvs) >= 1) =>
      /\ cur[t].writes = 1
      /\ Cardinality({i \in 1..Len(sink) : sink[i].t = t}) = 1
      /\ LastWriteBy(t).bytes =
           Header(loggers[cur[t].l], cur[t].lv, cur[t].tm, cur[t].msg)
           \o MalformedPairs(cur[t].l, Padded(cur[t].kvs)) \o <<NL>>

\* C12 witness: the call Info(nil, "", "") wrote INFO, two spaces,
\* MISSING_KEY, the separator and two double quotes, with colour disabled.
C12_Witness ==
  /\ pc["t1"] = "log_defer" /\ cur["t1"].kvs = <<EmptyV, EmptyV>>
  /\ cur["t1"].msg = NilV /\ cur["t1"].lv = InfoLevel
  /\ loggers[1].noColor /\ ~loggers[1].timestamp /\ ~loggers[1].caller
  /\ loggers[1].prefix = <<>>
  /\ LastWriteBy("t1").bytes =
       <<73, 78, 70, 79, SPACE, SPACE>> \o MISSING_KEY \o sep(<<61>>)
       \o <<DQUOTE, DQUOTE, NL>>

\* A pair as plain text: a space, the key, '=' and the value.
RECURSIVE PlainPairs(_)
PlainPairs(kvs) ==
  IF Len(kvs) < 2 THEN <<>>
  ELSE <<SPACE>> \o Sprint(kvs[1]) \o <<61>> \o Sprint(kvs[2])
       \o PlainPairs(SubSeq(kvs, 3, Len(kvs)))

\* The record of the claim's layout, as plain text, for pairs with non-empty
\* keys and values that need no quotes.
PlainRecord(l, level, t, msg, kvs) ==
  (IF l.timestamp THEN FormatTime(t, l.timeFormat) \o <<SPACE>> ELSE <<>>)
  \o ToUpper(LevelString(level)) \o <<SPACE>>
  \o (IF l.caller
        THEN trimCallerPath(CallSiteFile) \o <<58>> \o Digits(CallSiteLine) \o <<58, SPACE>>
        ELSE <<>>)
  \o (IF l.prefix # <<>> THEN l.prefix \o <<58, SPACE>> ELSE <<>>)
  \o (IF msg # NilV THEN Sprint(msg) ELSE <<>>)
  \o PlainPairs(kvs) \o <<NL>>

\* C15 (as claimed): with colour disabled, every record is the optional
\* timestamp and a space, the upper-case level name and a space, the optional
\* caller tag and a space, the optional prefix, colon and a space, the
\* message when not nil, a space and key=value for each inline pair, and one
\* final newline; and Info("start", "count", 3) with no timestamp, caller,
\* prefix or static attributes writes exactly INFO start count=3 and a
\* newline.
C15_RecordLayout ==
  \A t \in Threads :
    (pc[t] = "log_defer" /\ loggers[cur[t].l].noColor
       /\ cur[t].kvs \in {<<>>, <<KeyCount, IntV(3)>>, <<KeyK, NilV>>}) =>
      LET l == loggers[cur[t].l] IN
      /\ LastWriteBy(t).bytes = PlainRecord(l, cur[t].lv, cur[t].tm, cur[t].msg, cur[t].kvs)
      /\ (cur[t].lv = InfoLevel /\ cur[t].msg = MsgStart
            /\ cur[t].kvs = <<KeyCount, IntV(3)>>
            /\ ~l.timestamp /\ ~l.caller /\ l.prefix = <<>>) =>
           LastWriteBy(t).bytes =
             <<73, 78, 70, 79, SPACE, 115, 116, 97, 114, 116, SPACE,
               99, 111, 117, 110, 116, 61, 51, NL>>

\* C17 (as claimed): with colour disabled, no part of a record is styled:
\* the record holds no escape character, and the key, the '=' and the bar
\* marker stand in it as plain text.
C17_NoColorPlain ==
  \A t \in Threads :
    (pc[t] = "log_defer" /\ loggers[cur[t].l].noColor) =>
      LET bytes == LastWriteBy(t).bytes IN
      /\ ~ContainsRune(bytes, 27)
      /\ Occurs(Sprint(cur[t].kvs[1]) \o <<61>>, bytes)
      /\ ContainsRune(Sprint(cur[t].kvs[2]), NL) =>
           Occurs(<<NL, SPACE, SPACE, BAR, SPACE>>, bytes)

\* C14: a call of log that read the discard sink at line 186 goes from the
\* check of line 188 straight to its return: it is never at the time source,
\* at the Lock or in the formatting, it holds no exclusive lock, has put
\* nothing in the buffer and has made no Write; and its two steps (the read
\* of the sink and the check) leave every logger, the backing arrays and the
\* sink as they were and do not read the time source, whatever the other
\* thread is doing.
C14_DiscardNoEffect ==
  /\ [](\A t \in Threads :
          cur[t].w = "discard" =>
            /\ pc[t] \in {"log_rul", "ret"}
            /\ cur[t].writes = 0 /\ cur[t].mine = <<>>
            /\ mu[cur[t].l].w # t)
  /\ [][\A t \in Threads :
          ((pc[t] = "log_rl" /\ pc'[t] = "log_rul" /\ cur'[t].w = "discard")
             \/ (pc[t] = "log_rul" /\ cur[t].w = "discard" /\ pc'[t] # pc[t])) =>
            /\ loggers' = loggers /\ heap' = heap /\ sink' = sink
            /\ mu'[cur[t].l].w = mu[cur[t].l].w
            /\ \A a \in acc' : a.f # "timeFunc" /\ a.rw = "r"
            /\ pc[t] = "log_rul" => pc'[t] = "ret"]_vars

\* C14 witness: a call that read the discard sink has returned from log
\* while the other thread is inside a setter, holding the lock.
C14_Witness ==
  /\ pc["t1"] = "ret" /\ cur["t1"].op = "sev" /\ cur["t1"].w = "discard"
  /\ cur["t1"].writes = 0
  /\ pc["t2"] = "set_ul" /\ mu[1].w = "t2"
  /\ loggers[1].b = <<>>

\* The loggers whose lock thread t holds, shared or exclusive.
LocksHeld(t) == {l \in 1..Len(loggers) : Held(t, l) # "none"}

\* The positions at which a thread waits for a lock.
Waiting == {"log_rl", "log_lock", "dt_lock"}

\* C16: a thread that is not in a call, or has left the body of one, holds
\* no lock; a thread that waits for a lock holds none; and, with a fair
\* scheduler, every call made by either thread returns.
C16_LocksReleased ==
  /\ [](\A t \in Threads :
          /\ pc[t] \in {"idle", "ret"} \cup Waiting => LocksHeld(t) = {}
          /\ Cardinality(LocksHeld(t)) <= 1)
  /\ \A t \in Threads : (pc[t] # "idle") ~> (pc[t] = "idle")

\* C16 witness: a thread waits for the exclusive lock of a logger in log
\* while the other thread holds it inside a setter.
C16_Witness ==
  /\ pc["t1"] = "log_lock" /\ cur["t1"].l = 1
  /\ pc["t2"] = "set_ul" /\ mu[1].w = "t2"

\* The record ends with the pair of the key k and MISSING_VALUE.
EndsWithMissingValue(bytes, k, noColor) ==
  LET tail == FormatPair(k, MISSING_VALUE, noColor) \o <<NL>> IN
  /\ Len(tail) <= Len(bytes)
  /\ SubSeq(bytes, Len(bytes) - Len(tail) + 1, Len(bytes)) = tail

\* C18 (as claimed): whatever the static attributes of the logger, a call
\* with an odd number of keyvals writes a record whose last pair is the last
\* of those keyvals as the key, with the value MISSING_VALUE.
C18_OddExtrasGetMissingValue ==
  \A t \in Threads :
    (pc[t] = "log_defer" /\ Len(cur[t].kvs) % 2 = 1) =>
      EndsWithMissingValue(LastWriteBy(t).bytes, cur[t].kvs[Len(cur[t].kvs)],
                           loggers[cur[t].l].noColor)

\* C18 (amended): the same for a logger whose static attributes are even in
\* number.
C18_OddExtrasEvenStatics ==
  \A t \in Threads :
    (pc[t] = "log_defer" /\ Len(cur[t].kvs) % 2 = 1
       /\ Len(Statics(cur[t].l)) % 2 = 0) =>
      EndsWithMissingValue(LastWriteBy(t).bytes, cur[t].kvs[Len(cur[t].kvs)],
                           loggers[cur[t].l].noColor)

\* C18 witness: a call with the key k alone on a logger with the static
\* attributes f, 1 wrote a record that ends with k, the separator and
\* MISSING_VALUE, with colour disabled.
C18_Witness ==
  /\ pc["t1"] = "log_defer" /\ cur["t1"].kvs = <<KeyK>>
  /\ Len(Statics(cur["t1"].l)) = 2
  /\ loggers[cur["t1"].l].noColor
  /\ Occurs(<<SPACE, 107>> \o sep(<<61>>) \o Sprint(MISSING_VALUE) \o <<NL>>,
            LastWriteBy("t1").bytes)

\* C19 (as claimed): while a thread is in the Write of a record, the level
\* of the record is at or above the level the logger has at that moment.
C19_WrittenAtOrAboveCurrentLevel ==
  \A t \in Threads :
    pc[t] = "log_wret" => cur[t].lv >= loggers[cur[t].l].level

\* C19 (amended): while a thread is in the Write of a record, the level of
\* the record is at or above the level the call read under the shared lock
\* at its gate.
C19_WrittenAtOrAboveGateLevel ==
  \A t \in Threads :
    pc[t] = "log_wret" => cur[t].lv >= cur[t].level

\* C19 witness: a thread is in the Write of an Info record after the other
\* thread's SetLevel(ErrorLevel) has returned.
C19_Witness ==
  /\ pc["t1"] = "log_wret" /\ cur["t1"].lv = InfoLevel /\ cur["t1"].level = InfoLevel
  /\ loggers[cur["t1"].l].level = ErrorLevel
  /\ pc["t2"] = "idle" /\ nops["t2"] = 1

\* The threads that are inside a Write on sink w.
InWrite(w) == {t \in Threads : pc[t] = "log_wret" /\ loggers[cur[t].l].w = w}

\* C20 (as claimed): at most one thread is inside a Write on a sink, also
\* when the threads log through a logger and a logger derived from it.
C20_WritesNeverOverlap ==
  \A w \in Sinks : Cardinality(InWrite(w)) <= 1

\* C20 (amended): at most one thread is inside a Write made through one
\* logger.
C20_WritesNeverOverlapPerLogger ==
  \A l \in 1..Len(loggers) :
    Cardinality({t \in Threads : pc[t] = "log_wret" /\ cur[t].l = l}) <= 1

\* C20 witness: a thread is inside a Write through the derived logger while
\* the other waits for the lock of the same logger, whose sink is the
\* parent's.
C20_Witness ==
  /\ Len(loggers) = 2 /\ loggers[1].w = loggers[2].w
  /\ pc["t1"] = "log_wret" /\ cur["t1"].l = 2
  /\ pc["t2"] = "log_lock" /\ cur["t2"].l = 2

====
